---- MODULE Spec2Model ----
(***************************************************************************)
(* A model of main_20251224161010.py: the driver main() and the rewrite    *)
(* pipeline of convert_aspx_to_html().  Text is a sequence of              *)
(* one-character strings; every regular expression of the source is an     *)
(* operator RE(t, i) giving the position just after the match that starts  *)
(* at position i of t, or 0 when the pattern does not match there.  The    *)
(* alphabet is ASCII: \s and str.strip() take the ten ASCII characters of  *)
(* Whitespace, and IGNORECASE folds A-Z onto a-z.                          *)
(***************************************************************************)
EXTENDS Integers, Sequences, FiniteSets, TLC

VARIABLES pc, input_dir, output_dir, aspx_files, reads, written,
          file, input, text, origin, touched, title, body, head, html

vars == <<pc, input_dir, output_dir, aspx_files, reads, written,
          file, input, text, origin, touched, title, body, head, html>>

\* ---------- bounds ----------

\* An input file is the concatenation of at most MaxFrags fragments.
MaxFrags == 3

\* The input directory holds at most MaxFiles .aspx files.
MaxFiles == 1

\* ---------- characters and sequences ----------

\* The ASCII characters that \s matches and str.strip() removes: space,
\* \t, \n, \v, \f, \r and the separators 0x1c, 0x1d, 0x1e, 0x1f.
Whitespace ==
    {" ", "\t", "\n", "", "\f", "\r", "", "", "", ""}

IsSpace(c) == c \in Whitespace

Fold(c) ==
    CASE c = "A" -> "a"
      [] c = "B" -> "b"
      [] c = "C" -> "c"
      [] c = "D" -> "d"
      [] c = "E" -> "e"
      [] c = "F" -> "f"
      [] c = "G" -> "g"
      [] c = "H" -> "h"
      [] c = "I" -> "i"
      [] c = "J" -> "j"
      [] c = "K" -> "k"
      [] c = "L" -> "l"
      [] c = "M" -> "m"
      [] c = "N" -> "n"
      [] c = "O" -> "o"
      [] c = "P" -> "p"
      [] c = "Q" -> "q"
      [] c = "R" -> "r"
      [] c = "S" -> "s"
      [] c = "T" -> "t"
      [] c = "U" -> "u"
      [] c = "V" -> "v"
      [] c = "W" -> "w"
      [] c = "X" -> "x"
      [] c = "Y" -> "y"
      [] c = "Z" -> "z"
      [] OTHER -> c

At(t, i) == IF i >= 1 /\ i <= Len(t) THEN t[i] ELSE ""

\* The literal lit stands at position i of t.
LitAt(t, i, lit) ==
    /\ i >= 1
    /\ i + Len(lit) - 1 <= Len(t)
    /\ \A k \in 1..Len(lit) : t[i + k - 1] = lit[k]

\* The same, under re.IGNORECASE.
LitAtI(t, i, lit) ==
    /\ i >= 1
    /\ i + Len(lit) - 1 <= Len(t)
    /\ \A k \in 1..Len(lit) : Fold(t[i + k - 1]) = Fold(lit[k])

\* Greedy \s* from position i: the first position that holds no whitespace.
SkipSpace(t, i) ==
    IF i > Len(t) THEN i
    ELSE CHOOSE j \in i..(Len(t) + 1) :
            ~IsSpace(At(t, j)) /\ \A k \in i..(j - 1) : IsSpace(t[k])

\* Greedy [-]* from position i.
SkipDash(t, i) ==
    IF i > Len(t) THEN i
    ELSE CHOOSE j \in i..(Len(t) + 1) :
            At(t, j) # "-" /\ \A k \in i..(j - 1) : t[k] = "-"

\* The first position >= i that holds the character c, or 0.
Find(t, i, c) ==
    IF \E j \in i..Len(t) : t[j] = c
    THEN CHOOSE j \in i..Len(t) : t[j] = c /\ \A k \in i..(j - 1) : t[k] # c
    ELSE 0

\* The first position >= i where the literal lit stands, or 0.
FindLit(t, i, lit) ==
    IF \E j \in i..Len(t) : LitAt(t, j, lit)
    THEN CHOOSE j \in i..Len(t) :
            LitAt(t, j, lit) /\ \A k \in i..(j - 1) : ~LitAt(t, k, lit)
    ELSE 0

\* str.strip(): the text without its leading and trailing whitespace.
StripLo(t) == SkipSpace(t, 1)

StripHi(t) ==
    IF StripLo(t) > Len(t) THEN StripLo(t) - 1
    ELSE CHOOSE j \in 1..Len(t) :
            ~IsSpace(t[j]) /\ \A k \in (j + 1)..Len(t) : IsSpace(t[k])

Strip(t) == SubSeq(t, StripLo(t), StripHi(t))

\* ---------- regex ----------

LtPctAt == <<"<", "%", "@">>

LtPct == <<"<", "%">>

PctGt == <<"%", ">">>

DashDash == <<"-", "-">>

PageWord == <<"P", "a", "g", "e">>

TitleWord == <<"T", "i", "t", "l", "e">>

AspContentOpen ==
    <<"<", "a", "s", "p", ":", "C", "o", "n", "t", "e", "n", "t">>

AspContentClose ==
    <<"<", "/", "a", "s", "p", ":", "C", "o", "n", "t", "e", "n", "t", ">">>

CommentOpen ==
    <<"<", "%", "-", "-">>

CommentClose ==
    <<"-", "-", "%", ">">>

\* r'<%@\s*Page\s+[^%]*%>', IGNORECASE | DOTALL, read left to right:
\* k is the first '%' after the whitespace that follows Page ([^%]* cannot
\* pass it), and '>' must follow it.
PageClose(t, k) == IF k # 0 /\ At(t, k + 1) = ">" THEN k + 2 ELSE 0

PageWordAt(t, j) ==
    IF LitAtI(t, j, PageWord) /\ IsSpace(At(t, j + 4))
    THEN PageClose(t, Find(t, j + 5, "%"))
    ELSE 0

PAGE_DIRECTIVE_RE(t, i) ==
    IF LitAt(t, i, LtPctAt) THEN PageWordAt(t, SkipSpace(t, i + 3)) ELSE 0

\* r'Title\s*=\s*"([^"]+)"', IGNORECASE: the positions <<first, last>> of
\* group 1 for the match that starts at i, or << >> when there is none.
TitleQuoteClose(k, q) == IF q >= k + 2 THEN <<k + 1, q - 1>> ELSE << >>

TitleQuoteOpen(t, k) ==
    IF At(t, k) = "\"" THEN TitleQuoteClose(k, Find(t, k + 1, "\"")) ELSE << >>

TitleEquals(t, j) ==
    IF At(t, j) = "=" THEN TitleQuoteOpen(t, SkipSpace(t, j + 1)) ELSE << >>

TitleGroup(t, i) ==
    IF LitAtI(t, i, TitleWord) THEN TitleEquals(t, SkipSpace(t, i + 5)) ELSE << >>

TitleEnd(g) == IF g = << >> THEN 0 ELSE g[2] + 2

TITLE_RE(t, i) == TitleEnd(TitleGroup(t, i))

\* r'<asp:Content[^>]*>', IGNORECASE.
ContentStartClose(q) == IF q # 0 THEN q + 1 ELSE 0

ASP_CONTENT_START_RE(t, i) ==
    IF LitAtI(t, i, AspContentOpen)
    THEN ContentStartClose(Find(t, i + Len(AspContentOpen), ">"))
    ELSE 0

\* r'</asp:Content>', IGNORECASE.
\* (Without re.IGNORECASE the pattern would be AspContentEndCaseSensitive.)
AspContentEndCaseSensitive(t, i) ==
    IF LitAt(t, i, AspContentClose) THEN i + Len(AspContentClose) ELSE 0

ASP_CONTENT_END_RE(t, i) ==
    IF LitAtI(t, i, AspContentClose) THEN i + Len(AspContentClose) ELSE 0

\* <%\s*[-]{3,}\s*%> : one separator line of THREE_LINE_HEADER_RE.
SeparatorClose(t, m) == IF LitAt(t, m, PctGt) THEN m + 2 ELSE 0

SeparatorDashes(t, j, k) == IF k - j >= 3 THEN SeparatorClose(t, SkipSpace(t, k)) ELSE 0

SeparatorFrom(t, j) == SeparatorDashes(t, j, SkipDash(t, j))

SeparatorEnd(t, i) ==
    IF LitAt(t, i, LtPct) THEN SeparatorFrom(t, SkipSpace(t, i + 2)) ELSE 0

\* \s*--\s*%>\s*<%\s*[-]{3,}\s*%> : what must follow group 1.
HeaderTailClose(t, s) ==
    IF LitAt(t, s, PctGt) THEN SeparatorEnd(t, SkipSpace(t, s + 2)) ELSE 0

HeaderTailDashes(t, r) ==
    IF LitAt(t, r, DashDash) THEN HeaderTailClose(t, SkipSpace(t, r + 2)) ELSE 0

HeaderTailEnd(t, q) == HeaderTailDashes(t, SkipSpace(t, q))

\* <%\s*[-]{3,}\s*%>\s*<%\s*--\s* : the position where group 1 starts, or 0.
HeaderOpenDashes(t, c) == IF LitAt(t, c, DashDash) THEN SkipSpace(t, c + 2) ELSE 0

HeaderOpenPct(t, b) ==
    IF LitAt(t, b, LtPct) THEN HeaderOpenDashes(t, SkipSpace(t, b + 2)) ELSE 0

HeaderOpen(t, a) == IF a # 0 THEN HeaderOpenPct(t, SkipSpace(t, a)) ELSE 0

HeaderGroupStart(t, i) == HeaderOpen(t, SeparatorEnd(t, i))

\* Group 1, (.*?) under DOTALL, from its start g: the shortest run after
\* which the tail matches.  <<first, last>> of the group, or << >>.
HeaderGroupFrom(t, g) ==
    IF g = 0 \/ \A p \in g..(Len(t) + 1) : HeaderTailEnd(t, p) = 0 THEN << >>
    ELSE <<g, (CHOOSE p \in g..(Len(t) + 1) :
                  /\ HeaderTailEnd(t, p) # 0
                  /\ \A k \in g..(p - 1) : HeaderTailEnd(t, k) = 0) - 1>>

HeaderGroup(t, i) == HeaderGroupFrom(t, HeaderGroupStart(t, i))

HeaderEnd(t, g) == IF g = << >> THEN 0 ELSE HeaderTailEnd(t, g[2] + 1)

\* THREE_LINE_HEADER_RE, IGNORECASE | DOTALL | VERBOSE.
THREE_LINE_HEADER_RE(t, i) == HeaderEnd(t, HeaderGroup(t, i))

\* r'<%--.*?--%>', DOTALL.
CommentEnd(q) == IF q # 0 THEN q + 4 ELSE 0

ASP_COMMENT_RE(t, i) ==
    IF LitAt(t, i, CommentOpen) THEN CommentEnd(FindLit(t, i + 4, CommentClose)) ELSE 0

\* r'<%[^@].*?%>', DOTALL.
ServerBlockEnd(q) == IF q # 0 THEN q + 2 ELSE 0

ASP_SERVER_BLOCK_RE(t, i) ==
    IF LitAt(t, i, LtPct) /\ i + 2 <= Len(t) /\ t[i + 2] # "@"
    THEN ServerBlockEnd(FindLit(t, i + 3, PctGt))
    ELSE 0

MatchEnd(re, t, i) ==
    CASE re = "PAGE_DIRECTIVE_RE" -> PAGE_DIRECTIVE_RE(t, i)
      [] re = "TITLE_RE" -> TITLE_RE(t, i)
      [] re = "ASP_CONTENT_START_RE" -> ASP_CONTENT_START_RE(t, i)
      [] re = "ASP_CONTENT_END_RE" -> ASP_CONTENT_END_RE(t, i)
      [] re = "THREE_LINE_HEADER_RE" -> THREE_LINE_HEADER_RE(t, i)
      [] re = "ASP_COMMENT_RE" -> ASP_COMMENT_RE(t, i)
      [] re = "ASP_SERVER_BLOCK_RE" -> ASP_SERVER_BLOCK_RE(t, i)

\* Pattern.search(t): the leftmost position at or after pos where re matches, or 0.
Search(re, t, pos) ==
    IF \A i \in pos..Len(t) : MatchEnd(re, t, i) = 0 THEN 0
    ELSE CHOOSE i \in pos..Len(t) :
            MatchEnd(re, t, i) # 0 /\ \A k \in pos..(i - 1) : MatchEnd(re, t, k) = 0

\* The matches Pattern.sub visits: leftmost first, not overlapping, each
\* <<first position, position after the match>>.
RECURSIVE Matches(_, _, _)
MatchesWith(re, t, s, e) == <<<<s, e>>>> \o Matches(re, t, e)

MatchesFrom(re, t, s) ==
    IF s = 0 THEN << >> ELSE MatchesWith(re, t, s, MatchEnd(re, t, s))

Matches(re, t, pos) == MatchesFrom(re, t, Search(re, t, pos))

\* (With the end of a match taken for its last position, the character after
\* the match would go with it: CutOneInclusive.)
CutOneInclusive(x, m) == SubSeq(x, 1, m[1] - 1) \o SubSeq(x, m[2] + 1, Len(x))

\* x without the positions of the spans ms (x runs parallel to the text).
CutOne(x, m) == SubSeq(x, 1, m[1] - 1) \o SubSeq(x, m[2], Len(x))

RECURSIVE Cut(_, _)
Cut(x, ms) ==
    IF ms = << >> THEN x
    ELSE Cut(CutOne(x, ms[Len(ms)]), SubSeq(ms, 1, Len(ms) - 1))

\* Pattern.sub("", t).
Sub(re, t) == Cut(t, Matches(re, t, 1))

\* What the step st matches: <<st, o[k]>> for every position k of the spans
\* ms, where o runs parallel to the text.
Touch(st, o, ms) ==
    {<<st, o[k]>> : k \in UNION {ms[i][1]..(ms[i][2] - 1) : i \in 1..Len(ms)}}

\* ---------- fixed common head ----------

COMMON_HEAD_TEMPLATE ==
    <<"<", "h", "e", "a", "d", ">", "\n">>
    \o <<" ", " ", " ", " ", "<", "m", "e", "t", "a", " ", "c", "h", "a", "r", "s", "e", "t",
          "=", "\"", "U", "T", "F", "-", "8", "\"", ">", "\n">>
    \o <<" ", " ", " ", " ", "<", "t", "i", "t", "l", "e", ">", "{", "{", "T", "I", "T", "L",
          "E", "}", "}", "<", "/", "t", "i", "t", "l", "e", ">", "\n">>
    \o <<"\n">>
    \o <<" ", " ", " ", " ", "<", "!", "-", "-", " ", "C", "S", "S", " ", "-", "-", ">", "\n">>
    \o <<" ", " ", " ", " ", "<", "l", "i", "n", "k", " ", "r", "e", "l", "=", "\"", "s", "t",
          "y", "l", "e", "s", "h", "e", "e", "t", "\"", " ", "h", "r", "e", "f", "=", "\"", "C",
          "o", "n", "t", "e", "n", "t", "/", "j", "q", "u", "e", "r", "y", "-", "u", "i", ".",
          "m", "i", "n", ".", "c", "s", "s", "\"", ">", "\n">>
    \o <<" ", " ", " ", " ", "<", "l", "i", "n", "k", " ", "r", "e", "l", "=", "\"", "s", "t",
          "y", "l", "e", "s", "h", "e", "e", "t", "\"", " ", "h", "r", "e", "f", "=", "\"", "C",
          "o", "n", "t", "e", "n", "t", "/", "t", "a", "b", "u", "l", "a", "t", "o", "r", "/",
          "t", "a", "b", "u", "l", "a", "t", "o", "r", ".", "m", "i", "n", ".", "c", "s", "s",
          "\"", ">", "\n">>
    \o <<"\n">>
    \o <<" ", " ", " ", " ", "<", "!", "-", "-", " ", "J", "S", " ", "b", "a", "s", "e", " ",
          "-", "-", ">", "\n">>
    \o <<" ", " ", " ", " ", "<", "s", "c", "r", "i", "p", "t", " ", "s", "r", "c", "=", "\"",
          "S", "c", "r", "i", "p", "t", "s", "/", "j", "q", "u", "e", "r", "y", "-", "3", ".",
          "7", ".", "1", ".", "m", "i", "n", ".", "j", "s", "\"", ">", "<", "/", "s", "c", "r",
          "i", "p", "t", ">", "\n">>
    \o <<" ", " ", " ", " ", "<", "s", "c", "r", "i", "p", "t", " ", "s", "r", "c", "=", "\"",
          "S", "c", "r", "i", "p", "t", "s", "/", "j", "q", "u", "e", "r", "y", "-", "u", "i",
          ".", "m", "i", "n", ".", "j", "s", "\"", ">", "<", "/", "s", "c", "r", "i", "p", "t",
          ">", "\n">>
    \o <<"\n">>
    \o <<" ", " ", " ", " ", "<", "!", "-", "-", " ", "F", "o", "n", "t", "A", "w", "e", "s",
          "o", "m", "e", " ", "-", "-", ">", "\n">>
    \o <<" ", " ", " ", " ", "<", "s", "c", "r", "i", "p", "t", " ", "s", "r", "c", "=", "\"",
          "S", "c", "r", "i", "p", "t", "s", "/", "F", "o", "n", "t", "A", "w", "e", "s", "o",
          "m", "e", "/", "f", "o", "n", "t", "a", "w", "e", "s", "o", "m", "e", ".", "m", "i",
          "n", ".", "j", "s", "\"", ">", "<", "/", "s", "c", "r", "i", "p", "t", ">", "\n">>
    \o <<" ", " ", " ", " ", "<", "s", "c", "r", "i", "p", "t", " ", "s", "r", "c", "=", "\"",
          "S", "c", "r", "i", "p", "t", "s", "/", "F", "o", "n", "t", "A", "w", "e", "s", "o",
          "m", "e", "/", "s", "o", "l", "i", "d", ".", "m", "i", "n", ".", "j", "s", "\"", ">",
          "<", "/", "s", "c", "r", "i", "p", "t", ">", "\n">>
    \o <<" ", " ", " ", " ", "<", "s", "c", "r", "i", "p", "t", " ", "s", "r", "c", "=", "\"",
          "S", "c", "r", "i", "p", "t", "s", "/", "F", "o", "n", "t", "A", "w", "e", "s", "o",
          "m", "e", "/", "r", "e", "g", "u", "l", "a", "r", ".", "m", "i", "n", ".", "j", "s",
          "\"", ">", "<", "/", "s", "c", "r", "i", "p", "t", ">", "\n">>
    \o <<"\n">>
    \o <<" ", " ", " ", " ", "<", "!", "-", "-", " ", "A", "p", "p", " ", "c", "o", "m", "m",
          "o", "n", " ", "-", "-", ">", "\n">>
    \o <<" ", " ", " ", " ", "<", "s", "c", "r", "i", "p", "t", " ", "s", "r", "c", "=", "\"",
          "S", "c", "r", "i", "p", "t", "s", "/", "m", "v", "p", ".", "j", "s", "\"", ">", "<",
          "/", "s", "c", "r", "i", "p", "t", ">", "\n">>
    \o <<"<", "/", "h", "e", "a", "d", ">", "\n">>

TitleSlot ==
    <<"{", "{", "T", "I", "T", "L", "E", "}", "}">>

UntitledPage ==
    <<"U", "n", "t", "i", "t", "l", "e", "d", " ", "P", "a", "g", "e">>

HeaderCommentOpen ==
    <<"<", "!", "-", "-", " ", "-", "-", "-", "-", "-", "-", "-", "-", "-", "-", "-", " ">>

HeaderCommentClose ==
    <<" ", "-", "-", "-", "-", "-", "-", "-", "-", "-", "-", "-", " ", "-", "-", ">">>

HtmlOpen ==
    <<"<", "!", "D", "O", "C", "T", "Y", "P", "E", " ", "h", "t", "m", "l", ">", "\n">>
    \o <<"<", "h", "t", "m", "l", " ", "l", "a", "n", "g", "=", "\"", "j", "a", "\"", ">", "\n">>

BodyOpen ==
    <<"\n">>
    \o <<"<", "b", "o", "d", "y", ">", "\n">>
    \o <<"\n">>

BodyClose ==
    <<"\n">>
    \o <<"\n">>
    \o <<"<", "/", "b", "o", "d", "y", ">", "\n">>
    \o <<"<", "/", "h", "t", "m", "l", ">", "\n">>

\* ---------- conversion ----------

\* The title: group 1 of the first TITLE_RE match inside the first
\* PAGE_DIRECTIVE_RE match, "Untitled Page" when either search fails.
TitleAt(d, s) ==
    IF s = 0 THEN UntitledPage
    ELSE SubSeq(d, TitleGroup(d, s)[1], TitleGroup(d, s)[2])

TitleIn(d) == TitleAt(d, Search("TITLE_RE", d, 1))

TitleOfDirective(t, p) ==
    IF p = 0 THEN UntitledPage
    ELSE TitleIn(SubSeq(t, p, PAGE_DIRECTIVE_RE(t, p) - 1))

ExtractTitle(t) == TitleOfDirective(t, Search("PAGE_DIRECTIVE_RE", t, 1))

\* f"<!-- ----------- {m.group(1).strip()} ----------- -->"
\* (Without the rule of dashes the comment would be HeaderReplacerPlain.)
HeaderReplacerPlain(g) ==
    <<"<", "!", "-", "-", " ">> \o Strip(g) \o <<" ", "-", "-", ">">>

header_replacer(g) == HeaderCommentOpen \o Strip(g) \o HeaderCommentClose

\* THREE_LINE_HEADER_RE.sub(header_replacer, t), over the matches ms of t:
\* the match m, whose group 1 is at g, gives way to header_replacer's string.
ReplaceOne(t, m, g) ==
    SubSeq(t, 1, m[1] - 1)
        \o header_replacer(SubSeq(t, g[1], g[2]))
        \o SubSeq(t, m[2], Len(t))

RECURSIVE ReplaceHeaders(_, _)
ReplaceHeaders(t, ms) ==
    IF ms = << >> THEN t
    ELSE ReplaceHeaders(ReplaceOne(t, ms[Len(ms)], HeaderGroup(t, ms[Len(ms)][1])),
                        SubSeq(ms, 1, Len(ms) - 1))

\* (With count=1 the substitution would stop after the first match:
\* HeaderSubFirst.)
HeaderSubFirst(t) ==
    IF Search("THREE_LINE_HEADER_RE", t, 1) = 0 THEN t
    ELSE ReplaceHeaders(t, <<Matches("THREE_LINE_HEADER_RE", t, 1)[1]>>)

HeaderSub(t) == ReplaceHeaders(t, Matches("THREE_LINE_HEADER_RE", t, 1))

\* The position in the text read of every character of HeaderSub(t), given the
\* positions o of the characters of t: the characters of the stripped group
\* keep theirs, and the characters header_replacer adds for the match m have
\* -p, where p is the position in the text read of the first character of m.
OriginOne(o, m, lo, hi) ==
    SubSeq(o, 1, m[1] - 1)
        \o [k \in 1..Len(HeaderCommentOpen) |-> 0 - o[m[1]]]
        \o SubSeq(o, lo, hi)
        \o [k \in 1..Len(HeaderCommentClose) |-> 0 - o[m[1]]]
        \o SubSeq(o, m[2], Len(o))

OriginOfGroup(t, o, m, g) ==
    OriginOne(o, m,
              g[1] + StripLo(SubSeq(t, g[1], g[2])) - 1,
              g[1] + StripHi(SubSeq(t, g[1], g[2])) - 1)

RECURSIVE ReplaceHeaderOrigins(_, _, _)
ReplaceHeaderOrigins(t, o, ms) ==
    IF ms = << >> THEN o
    ELSE ReplaceHeaderOrigins(
             t,
             OriginOfGroup(t, o, ms[Len(ms)], HeaderGroup(t, ms[Len(ms)][1])),
             SubSeq(ms, 1, Len(ms) - 1))

\* str.replace(old, new): every occurrence of old, left to right.
RECURSIVE Replace(_, _, _)
ReplaceAt(t, old, new, s) ==
    IF s = 0 THEN t
    ELSE SubSeq(t, 1, s - 1) \o new
             \o Replace(SubSeq(t, s + Len(old), Len(t)), old, new)

Replace(t, old, new) == ReplaceAt(t, old, new, FindLit(t, 1, old))

\* (With the slot written {TITLE} the braces around it would stay:
\* MakeHeadSingleBrace.)
MakeHeadSingleBrace(ttl) ==
    Replace(COMMON_HEAD_TEMPLATE, SubSeq(TitleSlot, 2, Len(TitleSlot) - 1), ttl)

\* head = COMMON_HEAD_TEMPLATE.replace("{{TITLE}}", title)
MakeHead(ttl) == Replace(COMMON_HEAD_TEMPLATE, TitleSlot, ttl)

MakeHtml(hd, bd) == HtmlOpen \o hd \o BodyOpen \o bd \o BodyClose

\* Path.read_text: the content f of a file as the program reads it.  The
\* file is opened in text mode with universal newlines, so every \r\n and
\* every \r that is left becomes \n.
RECURSIVE read_text(_)
ReadFrom(f, p) ==
    IF p = 0 THEN f
    ELSE SubSeq(f, 1, p - 1) \o <<"\n">>
             \o read_text(SubSeq(f, IF At(f, p + 1) = "\n" THEN p + 2 ELSE p + 1, Len(f)))

read_text(f) == ReadFrom(f, Find(f, 1, "\r"))

\* The text t, as read, after each rewrite of convert_aspx_to_html, in order.
AfterDirective(t) == Sub("PAGE_DIRECTIVE_RE", t)

AfterHeader(t) == HeaderSub(AfterDirective(t))

AfterContentStart(t) == Sub("ASP_CONTENT_START_RE", AfterHeader(t))

AfterContentEnd(t) == Sub("ASP_CONTENT_END_RE", AfterContentStart(t))

AfterComment(t) == Sub("ASP_COMMENT_RE", AfterContentEnd(t))

AfterServerBlock(t) == Sub("ASP_SERVER_BLOCK_RE", AfterComment(t))

BodyOf(t) == Strip(AfterServerBlock(t))

\* The html that convert_aspx_to_html writes for a file whose content is f.
HtmlOf(f) == MakeHtml(MakeHead(ExtractTitle(read_text(f))), BodyOf(read_text(f)))

\* ---------- inputs ----------

\* Every concatenation of at most n fragments of the set frags.
RECURSIVE Texts(_, _)
Texts(frags, n) ==
    IF n = 0 THEN {<< >>}
    ELSE Texts(frags, n - 1) \cup {a \o f : a \in Texts(frags, n - 1), f \in frags}

\* ---------- main ----------

Init ==
    /\ pc = "main"
    /\ input_dir \in {"missing", "file", "dir"}
    /\ output_dir \in {"absent", "present"}
    /\ aspx_files \in 0..MaxFiles
    /\ input_dir # "dir" => aspx_files = 0
    /\ reads = 0
    /\ written = 0
    /\ file = << >>
    /\ input = << >>
    /\ text = << >>
    /\ origin = << >>
    /\ touched = {}
    /\ title = << >>
    /\ body = << >>
    /\ head = << >>
    /\ html = << >>

exists(d) == d # "missing"

is_dir(d) == d = "dir"

\* (With "and" for "or" a path that exists and is no directory would pass:
\* CheckInputAnd.)
CheckInputAnd ==
    /\ pc = "main"
    /\ pc' = IF ~exists(input_dir) /\ ~is_dir(input_dir) THEN "raised" ELSE "mkdir"
    /\ UNCHANGED <<input_dir, output_dir, aspx_files, reads, written,
                   file, input, text, origin, touched, title, body, head, html>>

\* if not input_dir.exists() or not input_dir.is_dir(): raise ValueError
CheckInput ==
    /\ pc = "main"
    /\ pc' = IF ~exists(input_dir) \/ ~is_dir(input_dir) THEN "raised" ELSE "mkdir"
    /\ UNCHANGED <<input_dir, output_dir, aspx_files, reads, written,
                   file, input, text, origin, touched, title, body, head, html>>

\* output_dir.mkdir(parents=True, exist_ok=True)
Mkdir ==
    /\ pc = "mkdir"
    /\ output_dir' = IF output_dir = "absent" THEN "created" ELSE output_dir
    /\ pc' = "glob"
    /\ UNCHANGED <<input_dir, aspx_files, reads, written,
                   file, input, text, origin, touched, title, body, head, html>>

\* aspx_files = list(input_dir.glob("*.aspx")); if not aspx_files: print, return
Glob ==
    /\ pc = "glob"
    /\ pc' = IF aspx_files = 0 THEN "returned" ELSE "loop"
    /\ UNCHANGED <<input_dir, output_dir, aspx_files, reads, written,
                   file, input, text, origin, touched, title, body, head, html>>

\* for aspx_file in aspx_files: the next file, whose content is one of corpus.
ForEach(corpus) ==
    /\ pc = "loop"
    /\ aspx_files > 0
    /\ \E t \in corpus : file' = t
    /\ aspx_files' = aspx_files - 1
    /\ input' = << >>
    /\ text' = << >>
    /\ origin' = << >>
    /\ touched' = {}
    /\ title' = << >>
    /\ body' = << >>
    /\ head' = << >>
    /\ html' = << >>
    /\ pc' = "read"
    /\ UNCHANGED <<input_dir, output_dir, reads, written>>

\* The loop is over: main returns.
Return ==
    /\ pc = "loop"
    /\ aspx_files = 0
    /\ pc' = "returned"
    /\ UNCHANGED <<input_dir, output_dir, aspx_files, reads, written,
                   file, input, text, origin, touched, title, body, head, html>>

\* ---------- convert_aspx_to_html ----------

\* text = aspx_path.read_text(encoding="utf-8").  input keeps the text as it
\* is read here, origin the position in input of every character of text, and
\* touched what every step has matched so far.
ReadText ==
    /\ pc = "read"
    /\ text' = read_text(file)
    /\ input' = read_text(file)
    /\ origin' = [i \in 1..Len(read_text(file)) |-> i]
    /\ reads' = reads + 1
    /\ pc' = "title"
    /\ UNCHANGED <<input_dir, output_dir, aspx_files, written, file, touched, title, body, head, html>>

GetTitle ==
    /\ pc = "title"
    /\ title' = ExtractTitle(text)
    /\ pc' = "directive"
    /\ UNCHANGED <<input_dir, output_dir, aspx_files, reads, written,
                   file, input, text, origin, touched, body, head, html>>

\* text = RE.sub("", text), for the pattern re, then on to the step next.
Delete(at, re, next) ==
    /\ pc = at
    /\ text' = Sub(re, text)
    /\ origin' = Cut(origin, Matches(re, text, 1))
    /\ touched' = touched \cup Touch(at, origin, Matches(re, text, 1))
    /\ pc' = next
    /\ UNCHANGED <<input_dir, output_dir, aspx_files, reads, written,
                   file, input, title, body, head, html>>

RemovePageDirective == Delete("directive", "PAGE_DIRECTIVE_RE", "header")

\* text = THREE_LINE_HEADER_RE.sub(header_replacer, text)
ReplaceHeader ==
    /\ pc = "header"
    /\ text' = HeaderSub(text)
    /\ origin' = ReplaceHeaderOrigins(text, origin, Matches("THREE_LINE_HEADER_RE", text, 1))
    /\ touched' = touched \cup Touch("header", origin, Matches("THREE_LINE_HEADER_RE", text, 1))
    /\ pc' = "content_start"
    /\ UNCHANGED <<input_dir, output_dir, aspx_files, reads, written,
                   file, input, title, body, head, html>>

RemoveContentStart == Delete("content_start", "ASP_CONTENT_START_RE", "content_end")

RemoveContentEnd == Delete("content_end", "ASP_CONTENT_END_RE", "comment")

RemoveComment == Delete("comment", "ASP_COMMENT_RE", "server_block")

RemoveServerBlock == Delete("server_block", "ASP_SERVER_BLOCK_RE", "strip")

\* body = text.strip()
StripBody ==
    /\ pc = "strip"
    /\ body' = Strip(text)
    /\ origin' = SubSeq(origin, StripLo(text), StripHi(text))
    /\ pc' = "head"
    /\ UNCHANGED <<input_dir, output_dir, aspx_files, reads, written,
                   file, input, text, touched, title, head, html>>

\* head = COMMON_HEAD_TEMPLATE.replace("{{TITLE}}", title)
FillHead ==
    /\ pc = "head"
    /\ head' = MakeHead(title)
    /\ pc' = "html"
    /\ UNCHANGED <<input_dir, output_dir, aspx_files, reads, written,
                   file, input, text, origin, touched, title, body, html>>

\* html = f"""<!DOCTYPE html> ... {head} ... {body} ... </html>"""
BuildHtml ==
    /\ pc = "html"
    /\ html' = MakeHtml(head, body)
    /\ pc' = "write"
    /\ UNCHANGED <<input_dir, output_dir, aspx_files, reads, written,
                   file, input, text, origin, touched, title, body, head>>

\* output_path.write_text(html, encoding="utf-8")
WriteHtml ==
    /\ pc = "write"
    /\ written' = written + 1
    /\ pc' = "loop"
    /\ UNCHANGED <<input_dir, output_dir, aspx_files, reads,
                   file, input, text, origin, touched, title, body, head, html>>

Convert ==
    \/ ReadText
    \/ GetTitle
    \/ RemovePageDirective
    \/ ReplaceHeader
    \/ RemoveContentStart
    \/ RemoveContentEnd
    \/ RemoveComment
    \/ RemoveServerBlock
    \/ StripBody
    \/ FillHead
    \/ BuildHtml
    \/ WriteHtml

Main(corpus) ==
    \/ CheckInput
    \/ Mkdir
    \/ Glob
    \/ ForEach(corpus)
    \/ Return

\* ---------- corpora and specifications ----------

\* Page directives with and without a title, one title of two lines.  The
\* files hold the line endings \n, \r\n and \r.
FragsHead ==
    { <<"<", "%", "@", " ", "P", "a", "g", "e", " ">>,
      <<"T", "i", "t", "l", "e", "=", "\"", "H", "o", "m", "e", "\"", " ", "%", ">">>,
      <<"T", "I", "T", "L", "E", "\f", "=", " ", "\"", "a", "\r", "b", "\"", "%", ">">>,
      <<"L", "a", "n", "g", "=", "\"", "C", "#", "\"", " ">>,
      <<"H", "e", "l", "l", "o">>,
      <<"%", ">">> }

CorpusHead == Texts(FragsHead, MaxFrags)

Next == Main(CorpusHead) \/ Convert

Spec == Init /\ [][Next]_vars

\* Page directives and their attributes.
FragsTitle ==
    { <<"<", "%", "@", " ", "P", "a", "g", "e", " ">>,
      <<"S", "u", "b", "T", "i", "t", "l", "e", "=", "\"", "Y", "\"", " ">>,
      <<"T", "i", "t", "l", "e", "=", "\"", "H", "o", "m", "e", "\"", " ", "%", ">">>,
      <<"%", ">">>,
      <<"<", "%", "@", " ", "p", "a", "g", "e", "\r", "\n", "L", "a", "n", "g", "=", "\"", "C",
       "#", "\"", "%", ">">>,
      <<"T", "i", "t", "l", "e", "=", "\"", "1", "0", "0", "%", " ", "P", "u", "r", "e", "\"",
       " ", "%", ">">>,
      <<"H", "e", "l", "l", "o">>,
      <<"T", "I", "T", "L", "E", " ", "=", " ", "\"", "a", "\r", "\n", "b", "\"", "%", ">">>,
      <<"T", "i", "t", "l", "e", "=", "\"", "\"", " ">> }

CorpusTitle == Texts(FragsTitle, MaxFrags)

NextTitle == Main(CorpusTitle) \/ Convert

SpecTitle == Init /\ [][NextTitle]_vars

\* asp:Content tags, whole and in pieces, after a page directive and alone,
\* and what they enclose: markup of the page and a server block.
FragsTags ==
    { <<"<", "%", "@", " ", "P", "a", "g", "e", " ", "T", "i", "t", "l", "e", "=", "\"", "H",
       "o", "m", "e", "\"", " ", "%", ">", "\n", "<", "A", "S", "P", ":", "C", "o", "n", "t",
       "e", "n", "t", " ", "I", "D", "=", "\"", "c", "1", "\"", ">">>,
      <<"<", "/", "a", "s", "p", ":", "c", "o", "n", "t", "e", "n", "t", ">">>,
      <<"<", "a", "s", "p", ":", "C", "o", "n">>,
      <<"t", "e", "n", "t", ">">>,
      <<"<", "p", ">", "H", "i", "<", "/", "p", ">", "\f", "\r", "\n">>,
      <<"<", "%", " ", "x", " ", "%", ">">> }

CorpusTags == Texts(FragsTags, MaxFrags)

NextTags == Main(CorpusTags) \/ Convert

SpecTags == Init /\ [][NextTags]_vars

\* Banners: the two lines that open one, the two that close one, a whole
\* one, and what stands beside them: a page directive, a server block.
FragsBanner ==
    { <<"<", "%", "-", "-", "-", "%", ">", "\r", "\n", "<", "%", "-", "-", " ">>,
      <<" ", "-", "-", "%", ">", "\r", "<", "%", "\f", "-", "-", "-", "-", " ", "%", ">">>,
      <<"<", "%", "-", "-", "-", "%", ">", "<", "%", "-", "-", " ", "A", " ", "b", " ", "-",
       "-", "%", ">", "<", "%", "-", "-", "-", "%", ">">>,
      <<"<", "%", "=", " ", "x", " ", "%", ">">>,
      <<"<", "%", "@", " ", "P", "a", "g", "e", " ", "%", ">", "\n">> }

CorpusBanner == Texts(FragsBanner, MaxFrags)

NextBanner == Main(CorpusBanner) \/ Convert

SpecBanner == Init /\ [][NextBanner]_vars

\* Server comments and angle-percent blocks, whole and in pieces.
FragsBlocks ==
    { <<"<", "%">>,
      <<"%", ">">>,
      <<"<">>,
      <<"%", " ", "b", " ", "%", ">">>,
      <<"<", "%", " ", "a", " ", "%", ">">>,
      <<"<", "%", "-", "-", " ", "c", " ", "-", "-", "%", ">">>,
      <<"<", "%", "@", " ", "R", "e", "g", "i", "s", "t", "e", "r", " ", "%", ">">>,
      <<"x">>,
      <<"\r">> }

CorpusBlocks == Texts(FragsBlocks, MaxFrags)

NextBlocks == Main(CorpusBlocks) \/ Convert

SpecBlocks == Init /\ [][NextBlocks]_vars

\* ---------- what the claims speak of ----------

\* The input of a conversion is the text of the file as the program reads it
\* (the variable input, with the line endings of the file read as \n); the
\* output is title, head, body and html.

Converted == pc = "write"

HasChar(t, c) == \E i \in 1..Len(t) : t[i] = c

\* t occurs in s as a contiguous run.
Occurs(t, s) == \E i \in 1..(Len(s) + 1) : LitAt(s, i, t)

\* The page directive of the claims that opens at s: <%@ Page, arbitrary
\* attributes, %>.  The position of the '%' that closes it, or 0.
DirectiveClose(t, s) ==
    LET j == SkipSpace(t, s + 3) IN
    IF LitAt(t, s, LtPctAt) /\ LitAtI(t, j, PageWord) /\ IsSpace(At(t, j + 4))
    THEN FindLit(t, j + 5, PctGt)
    ELSE 0

Directives(t) == {s \in 1..Len(t) : DirectiveClose(t, s) # 0}

DirectiveText(t, s) == SubSeq(t, s, DirectiveClose(t, s) + 1)

FirstDirective(t) ==
    DirectiveText(t, CHOOSE s \in Directives(t) : \A r \in Directives(t) : s <= r)

\* The values X of the attributes Title="X" of the directive d: the name
\* Title stands after whitespace, so it is no part of a longer name.
TitleAttributes(d) ==
    {SubSeq(d, TitleGroup(d, p)[1], TitleGroup(d, p)[2]) :
        p \in {q \in 2..Len(d) : IsSpace(d[q - 1]) /\ TitleGroup(d, q) # << >>}}

\* An opening asp:Content tag: <asp:Content in any case, up to the next '>'.
\* The position of that '>' for the tag that opens at s, or 0.
OpeningTagClose(t, s) ==
    IF LitAtI(t, s, AspContentOpen) THEN Find(t, s + Len(AspContentOpen), ">") ELSE 0

OpeningTags(t) == {s \in 1..Len(t) : OpeningTagClose(t, s) # 0}

\* A closing asp:Content tag: </asp:Content> in any case.
ClosingTagAt(t, s) == LitAtI(t, s, AspContentClose)

ClosingTags(t) == {s \in 1..Len(t) : ClosingTagAt(t, s)}

\* The characters s..e of the body stand in the input as they stand here:
\* next to one another, in this order.
Intact(o, s, e) == o[s] > 0 /\ \A k \in s..(e - 1) : o[k + 1] = o[k] + 1

\* No step has matched a character of the positions lo..hi of the input.
Untouched(lo, hi) == \A x \in touched : x[2] < lo \/ x[2] > hi

\* The regions of the input: <<i, j>> when an opening tag ends just before
\* i and a closing tag starts just after j.
Regions(t) ==
    {r \in {OpeningTagClose(t, s) + 1 : s \in OpeningTags(t)}
              \X {s - 1 : s \in ClosingTags(t)} :
        r[1] <= r[2] + 1}

\* The lines of t.
RECURSIVE Lines(_)
Lines(t) ==
    LET p == Find(t, 1, "\n") IN
    IF p = 0 THEN <<t>>
    ELSE <<SubSeq(t, 1, p - 1)>> \o Lines(SubSeq(t, p + 1, Len(t)))

\* The line of COMMON_HEAD_TEMPLATE that holds the title slot.
TitleLine == 3

\* COMMON_HEAD_TEMPLATE before and after its title slot.
HeadBeforeTitle ==
    SubSeq(COMMON_HEAD_TEMPLATE, 1, FindLit(COMMON_HEAD_TEMPLATE, 1, TitleSlot) - 1)

HeadAfterTitle ==
    SubSeq(COMMON_HEAD_TEMPLATE,
           FindLit(COMMON_HEAD_TEMPLATE, 1, TitleSlot) + Len(TitleSlot),
           Len(COMMON_HEAD_TEMPLATE))

\* The comment the claims expect for a banner whose text is g.
BannerComment(g) == HeaderCommentOpen \o Strip(g) \o HeaderCommentClose

\* Every position of t where a three-part banner starts.
Banners(t) == {s \in 1..Len(t) : THREE_LINE_HEADER_RE(t, s) # 0}

\* The positions where THREE_LINE_HEADER_RE.sub finds a banner.
RECURSIVE Firsts(_)
Firsts(ms) == IF ms = << >> THEN {} ELSE {ms[1][1]} \cup Firsts(Tail(ms))

ScannedBanners(t) == Firsts(Matches("THREE_LINE_HEADER_RE", t, 1))

BannerText(t, s) == SubSeq(t, HeaderGroup(t, s)[1], HeaderGroup(t, s)[2])

\* Position i of t belongs to the frame (the separators and the comment
\* delimiters, not the text) of one of the banners that start at sb.
InBannerFrame(t, sb, i) ==
    \E s \in sb :
        /\ s <= i /\ i < THREE_LINE_HEADER_RE(t, s)
        /\ ~(HeaderGroup(t, s)[1] <= i /\ i <= HeaderGroup(t, s)[2])

\* Banners are the only markup of t: no '<' and no '%' outside the frames
\* of the banners the scan finds.
OnlyBanners(t) ==
    LET sb == ScannedBanners(t) IN
    \A i \in 1..Len(t) : t[i] \in {"<", "%"} => InBannerFrame(t, sb, i)

\* The text the banner step scans, and the position in the input of each of
\* its characters: the input without the page directives that are matched.
HeaderInput == Sub("PAGE_DIRECTIVE_RE", input)

HeaderOrigin ==
    Cut([i \in 1..Len(input) |-> i], Matches("PAGE_DIRECTIVE_RE", input, 1))

\* The banner that starts at s of the text t whose characters have the
\* positions o in the input: the positions in the input of its match, of
\* its text without the whitespace around it, and its comment.
BannerSpan(t, o, s) == {o[k] : k \in s..(THREE_LINE_HEADER_RE(t, s) - 1)}

BannerKept(t, o, s) ==
    {o[k] : k \in (HeaderGroup(t, s)[1] + StripLo(BannerText(t, s)) - 1)
                    ..(HeaderGroup(t, s)[1] + StripHi(BannerText(t, s)) - 1)}

\* Where the comment cm stands in the text now, whose characters have the
\* positions onow, made of the characters that were put in for the banner
\* whose first character has the position p in the input.
CommentAt(cm, p, now, onow) ==
    {q \in 1..Len(now) : onow[q] = 0 - p /\ LitAt(now, q, cm)}

\* A banner is replaced as a whole by one comment: the comment stands once,
\* and of the span of the banner nothing but the kept text is left.
Replaced(cm, p, span, kept, now, onow) ==
    /\ Cardinality(CommentAt(cm, p, now, onow)) = 1
    /\ \A q \in 1..Len(now) : onow[q] \in span => onow[q] \in kept

\* Every banner the scan finds in t is replaced so in the text now.
AllReplaced(t, o, now, onow) ==
    \A s \in ScannedBanners(t) :
        Replaced(BannerComment(BannerText(t, s)), o[s],
                 BannerSpan(t, o, s), BannerKept(t, o, s), now, onow)

\* No step after the banner step has matched a character of the comment of
\* the banner: one that was put in for it, or one of its kept text.
CommentUntouched(p, kept) ==
    \A x \in touched :
        \/ x[1] \in {"directive", "header"}
        \/ x[2] # 0 - p /\ x[2] \notin kept

\* The comment of a banner of t whose comment no later step has matched
\* stands once in the text now.
Survives(cm, p, kept, now, onow) ==
    CommentUntouched(p, kept) => Cardinality(CommentAt(cm, p, now, onow)) = 1

AllSurvive(t, o, now, onow) ==
    \A s \in ScannedBanners(t) :
        Survives(BannerComment(BannerText(t, s)), o[s], BannerKept(t, o, s), now, onow)

\* A banner of t with a blank in its text, whose comment no later step has
\* matched and that stands in the text now.
SomeSurvives(t, o, now) ==
    \E s \in ScannedBanners(t) :
        /\ CommentUntouched(o[s], BannerKept(t, o, s))
        /\ HasChar(BannerText(t, s), " ")
        /\ Occurs(BannerComment(BannerText(t, s)), now)

CommentCount(t) == Cardinality({s \in 1..Len(t) : LitAt(t, s, HeaderCommentOpen)})

\* ---------- claims ----------

\* C1 (as stated): when the input has a page directive with an attribute
\* Title="X", the title of the output is X.  Stated for the inputs with
\* one page directive and one Title attribute in it.
C1_TitleIsAttribute ==
    Converted =>
        \A s \in Directives(input) :
            (Directives(input) = {s}
                 /\ Cardinality(TitleAttributes(DirectiveText(input, s))) = 1)
            => title \in TitleAttributes(DirectiveText(input, s))

\* C2 (as stated): with no page directive, or no Title attribute in the
\* first page directive, the title of the output is "Untitled Page".
C2_DefaultTitle ==
    (Converted /\ (Directives(input) = {} \/ TitleAttributes(FirstDirective(input)) = {}))
        => title = UntitledPage

\* C3 (as stated): the head has the lines of the template, all but the
\* title line byte-identical.
C3_SameLines ==
    Converted =>
        LET hl == Lines(head)
            tl == Lines(COMMON_HEAD_TEMPLATE)
        IN /\ Len(hl) = Len(tl)
           /\ \A i \in 1..Len(tl) : i # TitleLine => hl[i] = tl[i]

\* C3 (amended): the head is the template with the title in the place of
\* the slot, so what stands before and after the title is fixed; the html
\* holds that head; with no line break in the title the head has the lines
\* of the template.
C3_HeadAroundTitle ==
    Converted =>
        /\ head = HeadBeforeTitle \o title \o HeadAfterTitle
        /\ SubSeq(html, Len(HtmlOpen) + 1, Len(HtmlOpen) + Len(head)) = head
        /\ ~HasChar(title, "\n") =>
               Cardinality({i \in 1..Len(head) : head[i] = "\n"})
                   = Cardinality({i \in 1..Len(COMMON_HEAD_TEMPLATE) :
                                      COMMON_HEAD_TEMPLATE[i] = "\n"})

C3_Witness == Converted /\ title # UntitledPage /\ ~HasChar(title, "\n")

\* C4 (as stated): the body holds no opening and no closing asp:Content tag.
C4_NoTagInBody ==
    Converted =>
        /\ OpeningTags(body) = {}
        /\ ClosingTags(body) = {}

\* C4 (amended): no asp:Content tag of the input reaches the body; a tag of
\* the body is put together from text on the two sides of a deletion.
C4_NoInputTagInBody ==
    Converted =>
        /\ \A s \in OpeningTags(body) : ~Intact(origin, s, OpeningTagClose(body, s))
        /\ \A s \in ClosingTags(body) : ~Intact(origin, s, s + Len(AspContentClose) - 1)

C4_Witness ==
    /\ Converted
    /\ OpeningTags(input) # {}
    /\ ClosingTags(input) # {}
    /\ body # << >>

\* C5 (as stated): the text between an opening and a closing asp:Content
\* tag stands in the body, character for character.
C5_RegionVerbatim ==
    Converted =>
        \A r \in Regions(input) : Occurs(SubSeq(input, r[1], r[2]), body)

\* C5 (amended): a region that no step touches (no page directive, banner,
\* asp:Content tag, server comment or server block that a step matches
\* holds a character of it) stands in the body but for its leading and
\* trailing whitespace.
C5_RegionStripped ==
    Converted =>
        \A r \in Regions(input) :
            Untouched(r[1], r[2]) => Occurs(Strip(SubSeq(input, r[1], r[2])), body)

\* A region of markup after a page directive: kept, without the whitespace
\* that ends it.
C5_Witness ==
    /\ Converted
    /\ Directives(input) # {}
    /\ \E r \in Regions(input) :
           /\ Untouched(r[1], r[2])
           /\ \E k \in r[1]..r[2] : input[k] = "<"
           /\ Strip(SubSeq(input, r[1], r[2])) # << >>
           /\ Strip(SubSeq(input, r[1], r[2])) # SubSeq(input, r[1], r[2])

\* C6 (as stated): every three-part banner of the input is in the body as
\* its one comment, one comment for each banner.
C6_EveryBanner ==
    Converted =>
        /\ \A s \in Banners(input) : Occurs(BannerComment(BannerText(input, s)), body)
        /\ CommentCount(body) = Cardinality(Banners(input))

\* C6 (amended): every banner that the banner step finds in the text it
\* scans is replaced as a whole by its one comment; in the body the comment
\* stands, once, when no later step has matched a character of it.
C6_ScannedBanners ==
    /\ pc = "content_start" => AllReplaced(HeaderInput, HeaderOrigin, text, origin)
    /\ Converted => AllSurvive(HeaderInput, HeaderOrigin, body, origin)

\* A banner beside a page directive or a server block: its comment is in the
\* body.
C6_Witness ==
    /\ Converted
    /\ ~OnlyBanners(input)
    /\ SomeSurvives(HeaderInput, HeaderOrigin, body)

\* C7 (as stated): the text with its banners replaced holds no banner.
C7_NoBannerLeft == pc = "content_start" => Banners(text) = {}

\* C7 (amended): replacing the banners of a text whose banner texts hold
\* no <% leaves a text that holds no banner.
C7_NoBannerLeftWithoutOpener ==
    [][(pc = "header"
          /\ \A s \in ScannedBanners(text) : FindLit(BannerText(text, s), 1, LtPct) = 0)
       => Banners(text') = {}]_vars

C7_Witness ==
    /\ pc = "content_start"
    /\ Cardinality(ScannedBanners(input)) = 2
    /\ \A s \in ScannedBanners(input) : FindLit(BannerText(input, s), 1, LtPct) = 0
    /\ CommentCount(text) = 2

\* C8: with an input path that is missing or no directory, main raises
\* before it creates the output directory, reads or writes a file.
C8_InvalidInputStopsMain ==
    ~(exists(input_dir) /\ is_dir(input_dir)) =>
        /\ pc \in {"main", "raised"}
        /\ output_dir # "created"
        /\ reads = 0
        /\ written = 0

C8_Witness == pc = "raised" /\ exists(input_dir) /\ ~is_dir(input_dir)

\* C9 (as stated): the body holds no page directive.
C9_NoDirectiveInBody == Converted => Directives(body) = {}

\* C10 (as stated): the body holds no server comment and no terminated
\* <% ... %> block whose first character is not '@'.
C10_NoServerBlockInBody ==
    Converted =>
        \A s \in 1..Len(body) :
            /\ ~(LitAt(body, s, CommentOpen) /\ FindLit(body, s + 4, CommentClose) # 0)
            /\ ~(LitAt(body, s, LtPct) /\ At(body, s + 2) # "@"
                   /\ FindLit(body, s + 2, PctGt) # 0)

====
